---------------------------- MODULE Spec2Model ----------------------------
(***************************************************************************)
(* LVSP voice gateway (bannana-pho): the per-connection protocol engine of *)
(* src/src/main.rs, the token verifier of src/src/util.rs and the INFO     *)
(* payload decoder of src/src/infoops.rs, over a Redis store shared by all *)
(* connections.                                                            *)
(*                                                                         *)
(* Representation.  Rust's Option<T> is a sequence of length at most one.  *)
(* Text is a TLA+ string (concatenated with \o), except the token an       *)
(* IDENTIFY presents, which is kept as its sequence of characters because  *)
(* hex::decode reads it character by character.  A JSON value is a record  *)
(* tagged by its JSON type; a JSON object is a function from its keys.     *)
(***************************************************************************)
EXTENDS Integers, Sequences, FiniteSets, TLC

VARIABLES
    env_secret,     \* env SECRET, read once by main
    env_heartbeat,  \* env HEARTBEAT_INTERVAL, read when HELLO is built
    pc,             \* per peer: where its handle_conn task stands
    identified,     \* per peer: handle_conn's local `identified`
    sent,           \* per peer: how many frames ws_sender has sent
    redis_str,      \* Redis string keys ("{peer}_nonce")
    redis_set,      \* Redis set keys ("{guild}_{channel}_voice")
    nframes,        \* inbound frames taken so far (bounds the exploration)
    last,           \* the step just taken: peer, frame taken, frames sent, what was
                    \* drawn and what SADD returned
    assigned,       \* per set key: the CHANNEL_ASSIGN replies sent so far, each
                    \* as the peer it went to and the token it carried
    inbound,        \* per peer: what ends its stream and waits to be taken by the
                    \* loop ("close", "eof"), or "none"
    v_in,           \* verifier harness: the arguments of the last verify_token call
    v_out           \* verifier harness: its outcome

vars == <<env_secret, env_heartbeat, pc, identified, sent, redis_str, redis_set,
          nframes, last, assigned, inbound, v_in, v_out>>

----------------------------------------------------------------------------
(* Option<T> *)

None == <<>>

Some(x) == <<x>>

unwrap_or(o, dflt) == IF o = None THEN dflt ELSE o[1]

----------------------------------------------------------------------------
(* JSON values *)

JStr(s) == [t |-> "str", v |-> s]

JNum(n) == [t |-> "num", v |-> n]

JNull == [t |-> "null"]

JObj(f) == [t |-> "obj", v |-> f]

EmptyObj == [k \in {} |-> JNull]

Has(obj, key) == key \in DOMAIN obj

IsStrField(obj, key) == Has(obj, key) /\ obj[key].t = "str"

\* serde: an Option<String> field accepts a string, null, or a missing key
IsOptStrField(obj, key) == ~Has(obj, key) \/ obj[key].t \in {"str", "null"}

OptStrField(obj, key) ==
    IF Has(obj, key) /\ obj[key].t = "str" THEN Some(obj[key].v) ELSE None

\* serde_json writes Option<String> as the string or as null
JOpt(o) == IF o = None THEN JNull ELSE JStr(o[1])


----------------------------------------------------------------------------
(* Bounds of the exploration *)

\* inbound frames taken over all connections in one behaviour
MaxFrames == 3

\* longest token the verifier harness presents, in characters
MaxTokenLen == 3

\* the two clients that connect; a peer address is what format!("{}", peer) prints
Peers == {"10.0.0.1:4000", "10.0.0.2:4000"}

\* values of env SECRET
Secrets == {"s3cret", "hunter2"}

\* the characters rand's Alphanumeric sampler is let to draw; one draw of n
\* characters is taken to repeat one of them
AlnumChars == {"a", "Z"}

\* the characters a presented token is built from: hex digits of both cases
\* and one character that is no hex digit
TokenChars == {"0", "a", "A", "g"}

----------------------------------------------------------------------------
(* rand::thread_rng().sample_iter(&Alphanumeric).take(n).collect() *)

NonceLen == 10

TokenLen == 64

SessionIdLen == 32

RECURSIVE Repeat(_, _)
Repeat(c, n) == IF n = 0 THEN "" ELSE c \o Repeat(c, n - 1)

sample_alnum(n) == { Repeat(c, n) : c \in AlnumChars }

\* what the three draws of main.rs can yield
Nonces == sample_alnum(NonceLen)

Tokens == sample_alnum(TokenLen)

SessionIds == sample_alnum(SessionIdLen)

----------------------------------------------------------------------------
(* hex::decode / hex::encode and Hmac<Sha256>, as util.rs uses them *)

HexVal(c) ==
    CASE c = "0" -> 0  [] c = "1" -> 1  [] c = "2" -> 2  [] c = "3" -> 3
      [] c = "4" -> 4  [] c = "5" -> 5  [] c = "6" -> 6  [] c = "7" -> 7
      [] c = "8" -> 8  [] c = "9" -> 9
      [] c \in {"a", "A"} -> 10 [] c \in {"b", "B"} -> 11
      [] c \in {"c", "C"} -> 12 [] c \in {"d", "D"} -> 13
      [] c \in {"e", "E"} -> 14 [] c \in {"f", "F"} -> 15
      [] OTHER -> -1

\* Err (None) on an odd length or on a character that is no hex digit
hex_decode(chars) ==
    IF Len(chars) % 2 = 1 \/ \E i \in 1..Len(chars) : HexVal(chars[i]) < 0
    THEN None
    ELSE Some([i \in 1..(Len(chars) \div 2) |->
                 16 * HexVal(chars[2 * i - 1]) + HexVal(chars[2 * i])])

HexDigits == <<"0", "1", "2", "3", "4", "5", "6", "7",
               "8", "9", "a", "b", "c", "d", "e", "f">>

\* lower-case, two characters a byte
hex_encode(bytes) ==
    [i \in 1..(2 * Len(bytes)) |->
        IF i % 2 = 1 THEN HexDigits[(bytes[(i + 1) \div 2] \div 16) + 1]
                     ELSE HexDigits[(bytes[i \div 2] % 16) + 1]]

\* SHA-256 is not computed.  The digest is a table over the bounded keys and
\* messages, one byte long and free of collisions on them.
KeyRow(key) == CASE key = "s3cret" -> 0 [] key = "hunter2" -> 10 [] OTHER -> 1

NonceOf == [c \in AlnumChars |-> Repeat(c, NonceLen)]

MsgCol(msg) ==
    CASE msg = NonceOf["a"] -> 0
      [] msg = NonceOf["Z"] -> 10
      [] OTHER -> 1

HmacSha256(key, msg) == <<16 * KeyRow(key) + MsgCol(msg)>>

\* verify_slice: equal length and equal bytes
verify_slice(mac, bytes) == mac = bytes

\* util.rs, verify_token: true, false, or a panic from one of its expect()s
verify_token(secret, nonce, token) ==
    IF nonce = None THEN "panic"
    ELSE IF hex_decode(token) = None THEN "panic"
    ELSE IF verify_slice(HmacSha256(secret, nonce[1]), hex_decode(token)[1])
         THEN "true" ELSE "false"

----------------------------------------------------------------------------
(* WebSocket frames.  A text frame's body is either text that is no JSON    *)
(* document, or the JSON value it parses to (serde_json::from_str) and is   *)
(* written from (serde_json::to_string).                                    *)

CloseFrame == [kind |-> "close"]

BinaryFrame == [kind |-> "binary"]

Raw(s) == [json |-> FALSE, raw |-> s]

Json(val) == [json |-> TRUE, val |-> val]

TextFrame(body) == [kind |-> "text", body |-> body]

is_text(msg) == msg.kind = "text"

is_close(msg) == msg.kind = "close"

----------------------------------------------------------------------------
(* opcodes.rs: op codes and error codes *)

HELLO == 0

IDENTIFY == 1

RESUME == 2

READY == 3

HEARTBEAT == 4

HEARTBEAT_ACK == 5

INFO == 6

GENERAL == 4000

AUTH == 4001

DECODE == 4002

\* Message::Text((code as i32).to_string()): the decimal text of the code,
\* which read as JSON is that number
ErrorFrame(code) == TextFrame(Json(JNum(code)))

\* READY and HEARTBEAT_ACK carry health: 6.9
Health == [t |-> "float", v |-> "6.9"]

\* serde_json::to_string(&SocketMessage { op, d }): {"op": <uint>, "d": {...}}
SocketMessage(op, d) == TextFrame(Json(JObj([op |-> JNum(op), d |-> JObj(d)])))

\* The payload get_opcode requires of each op: d must have the shape of op's
\* variant, or decoding fails.
PayloadFits(op, d) ==
    CASE op = HELLO -> Has(d, "heartbeat_interval") /\ d["heartbeat_interval"].t = "num"
                       /\ IsStrField(d, "nonce")
      [] op = IDENTIFY -> IsStrField(d, "token")
      [] op = RESUME -> TRUE
      [] op = READY -> Has(d, "health") /\ d["health"].t \in {"num", "float"}
      [] op = HEARTBEAT -> TRUE
      [] op = HEARTBEAT_ACK -> Has(d, "health") /\ d["health"].t \in {"num", "float"}
      [] op = INFO -> Has(d, "type") /\ d["type"].t = "num"
                      /\ Has(d, "data") /\ d["data"].t = "obj"
      [] OTHER -> FALSE

\* get_opcode(msg) -> Result<(OpCode, MessageData), ()>: Err (None) on text
\* that is no JSON, on an op that is no op code, and on a d that does not
\* fit the op
get_opcode(msg) ==
    LET b == msg.body IN
    IF ~b.json THEN None
    ELSE IF b.val.t # "obj" THEN None
    ELSE LET o == b.val.v IN
         IF ~(Has(o, "op") /\ o["op"].t = "num" /\ o["op"].v \in HELLO..INFO) THEN None
         ELSE IF ~(Has(o, "d") /\ o["d"].t = "obj") THEN None
         ELSE IF ~PayloadFits(o["op"].v, o["d"].v) THEN None
         ELSE Some(<<o["op"].v, o["d"].v>>)

----------------------------------------------------------------------------
(* infoops.rs: INFO types, the untagged InfoData and get_infotype *)

CHANNEL_REQ == 0

CHANNEL_ASSIGN == 1

CHANNEL_DESTROY == 2

VST_CREATE == 3

VST_DONE == 4

VST_DESTROY == 5

VST_UPDATE == 6

\* #[serde(untagged)] enum InfoData: serde tries the variants in the order
\* they are declared and keeps the first whose fields the object provides;
\* keys a variant does not name are ignored.  Err (None) when none fits.
InfoData(obj) ==
    IF IsStrField(obj, "channel_id") /\ IsOptStrField(obj, "guild_id")
    THEN Some([variant |-> CHANNEL_REQ,
               channel_id |-> obj["channel_id"].v,
               guild_id |-> OptStrField(obj, "guild_id")])
    ELSE IF IsStrField(obj, "channel_id") /\ IsOptStrField(obj, "guild_id")
            /\ IsStrField(obj, "token")
    THEN Some([variant |-> CHANNEL_ASSIGN,
               channel_id |-> obj["channel_id"].v,
               guild_id |-> OptStrField(obj, "guild_id"),
               token |-> obj["token"].v])
    ELSE IF IsStrField(obj, "channel_id") /\ IsOptStrField(obj, "guild_id")
    THEN Some([variant |-> CHANNEL_DESTROY,
               channel_id |-> obj["channel_id"].v,
               guild_id |-> OptStrField(obj, "guild_id")])
    ELSE IF IsStrField(obj, "user_id") /\ IsStrField(obj, "channel_id")
            /\ IsOptStrField(obj, "guild_id")
    THEN Some([variant |-> VST_CREATE,
               user_id |-> obj["user_id"].v,
               channel_id |-> obj["channel_id"].v,
               guild_id |-> OptStrField(obj, "guild_id")])
    ELSE IF IsStrField(obj, "user_id") /\ IsStrField(obj, "channel_id")
            /\ IsOptStrField(obj, "guild_id") /\ IsStrField(obj, "session_id")
    THEN Some([variant |-> VST_DONE,
               user_id |-> obj["user_id"].v,
               channel_id |-> obj["channel_id"].v,
               guild_id |-> OptStrField(obj, "guild_id"),
               session_id |-> obj["session_id"].v])
    ELSE IF IsStrField(obj, "session_id")
    THEN Some([variant |-> VST_DESTROY, session_id |-> obj["session_id"].v])
    ELSE IF IsStrField(obj, "session_id")
    THEN Some([variant |-> VST_UPDATE, session_id |-> obj["session_id"].v])
    ELSE None

\* Deserialize_repr for InfoType: a number that is one of the discriminants
InfoType(val) ==
    IF val.t = "num" /\ val.v \in CHANNEL_REQ..VST_UPDATE THEN Some(val.v) ELSE None

\* get_infotype(msg): "err" when the text is no JSON, "panic" from
\* get("d").unwrap() or from_value(..).expect(..), else the (type, data) pair
get_infotype(msg) ==
    LET b == msg.body IN
    IF ~b.json THEN [r |-> "err"]
    ELSE IF ~(b.val.t = "obj" /\ Has(b.val.v, "d")) THEN [r |-> "panic"]
    ELSE LET d == b.val.v["d"] IN
         IF ~(d.t = "obj" /\ Has(d.v, "type") /\ Has(d.v, "data")) THEN [r |-> "panic"]
         ELSE IF InfoType(d.v["type"]) = None THEN [r |-> "panic"]
         ELSE IF d.v["data"].t # "obj" THEN [r |-> "panic"]
         ELSE IF InfoData(d.v["data"].v) = None THEN [r |-> "panic"]
         ELSE [r |-> "ok", type |-> InfoType(d.v["type"])[1],
               data |-> InfoData(d.v["data"].v)[1]]

----------------------------------------------------------------------------
(* The Redis commands main.rs issues *)

EmptyStore == [k \in {} |-> {}]

redis_get(store, key) == IF key \in DOMAIN store THEN Some(store[key]) ELSE None

redis_put(store, key, val) ==
    [k \in DOMAIN store \cup {key} |-> IF k = key THEN val ELSE store[k]]

smembers(store, key) == IF key \in DOMAIN store THEN store[key] ELSE {}

sadd_overwrites(store, key, members) ==
    [store |-> redis_put(store, key, members),
     added |-> Cardinality(members \ smembers(store, key))]

\* SADD: the set after it, and the number of members that were new
sadd(store, key, members) ==
    [store |-> redis_put(store, key, smembers(store, key) \cup members),
     added |-> Cardinality(members \ smembers(store, key))]

\* format!("{}_nonce", peer)
nonce_key_shared(peer) == "nonce"

nonce_key(peer) == peer \o "_nonce"

voice_key_swapped(guild_id, channel_id) == channel_id \o "_" \o guild_id \o "_voice"

\* format!("{}_{}_voice", guild_id, channel_id)
voice_key(guild_id, channel_id) == guild_id \o "_" \o channel_id \o "_voice"

\* format!("token_{}", token)
token_member(token) == "token_" \o token

\* format!("{}", session_id)
session_member(session_id) == session_id

\* HashSet::insert on the handler's own set: true when the value was not in it
hashset_insert(set, x) == [set |-> set \cup {x}, fresh |-> x \notin set]

----------------------------------------------------------------------------
(* env HEARTBEAT_INTERVAL: unset, or a text that is a decimal numeral within *)
(* i32, a decimal numeral beyond i32, or no numeral at all                   *)

Numeral(n) == [numeral |-> TRUE, i32 |-> TRUE, n |-> n]

HugeNumeral == [numeral |-> TRUE, i32 |-> FALSE]

NotNumeral == [numeral |-> FALSE]

HeartbeatEnvs ==
    {None, Some(NotNumeral), Some(HugeNumeral), Some(Numeral(0)), Some(Numeral(1000))}

\* str::parse::<i32>()
parse_i32(text) == IF text.numeral /\ text.i32 THEN Some(text.n) ELSE None

heartbeat_interval_fixed(env) == 1

\* env::var("HEARTBEAT_INTERVAL").unwrap_or("1").parse::<i32>().unwrap_or(1)
heartbeat_interval(env) == unwrap_or(parse_i32(unwrap_or(env, Numeral(1))), 1)

HelloMsg(env, nonce) ==
    SocketMessage(HELLO, [heartbeat_interval |-> JNum(heartbeat_interval(env)),
                          nonce |-> JStr(nonce)])

ReadyMsg == SocketMessage(READY, [health |-> Health])

HeartbeatAckAsReady == SocketMessage(READY, [health |-> Health])

HeartbeatAckMsg == SocketMessage(HEARTBEAT_ACK, [health |-> Health])

ChannelAssignMsg(dn, token) ==
    SocketMessage(INFO, [type |-> JNum(CHANNEL_ASSIGN),
                         data |-> JObj([channel_id |-> JStr(dn.channel_id),
                                        guild_id |-> JOpt(dn.guild_id),
                                        token |-> JStr(token)])])

VstDoneMsg(dn, session_id) ==
    SocketMessage(INFO, [type |-> JNum(VST_DONE),
                         data |-> JObj([user_id |-> JStr(dn.user_id),
                                        channel_id |-> JStr(dn.channel_id),
                                        guild_id |-> JOpt(dn.guild_id),
                                        session_id |-> JStr(session_id)])])

----------------------------------------------------------------------------
(* The frames a client is let to send *)

TokensUpTo(n) == UNION { [1..k -> TokenChars] : k \in 0..n }

\* longest token an IDENTIFY frame presents, in characters
MaxIdentifyTokenLen == 2

Envelope(op, d) == TextFrame(Json(JObj([op |-> JNum(op), d |-> JObj(d)])))

\* the payload shapes of the INFO types a client sends, with and without a
\* guild, an empty payload, and a channel id sent as a number
InfoPayloads ==
    { EmptyObj,
      [channel_id |-> JStr("c1")],
      [channel_id |-> JStr("c1"), guild_id |-> JStr("g1")],
      [user_id |-> JStr("u1"), channel_id |-> JStr("c1")],
      [user_id |-> JStr("u1"), channel_id |-> JStr("c1"), guild_id |-> JStr("g1")],
      [session_id |-> JStr("s1")],
      [channel_id |-> JNum(1)] }

\* the characters of the proofs of Secrets over Nonces
ProofChars == {"0", "a"}

\* a proof in upper case, a token with an upper-case digit, a token that is
\* no hex
UpperAndNonHexTokens == { <<"0", "A">>, <<"A", "a">>, <<"g", "0">> }

IdentifyTokens ==
    UNION { [1..k -> ProofChars] : k \in 0..MaxIdentifyTokenLen }
        \cup UpperAndNonHexTokens

IdentifyFrames == { Envelope(IDENTIFY, [token |-> JStr(t)]) : t \in IdentifyTokens }

InfoFrames ==
    { Envelope(INFO, [type |-> JNum(t), data |-> JObj(pl)]) :
        t \in CHANNEL_REQ..(VST_UPDATE + 1), pl \in InfoPayloads }

TextFrames ==
    IdentifyFrames \cup InfoFrames \cup
    { TextFrame(Raw("deez")),
      Envelope(99, EmptyObj),
      Envelope(IDENTIFY, [notToken |-> JNum(1)]),
      Envelope(INFO, EmptyObj),
      Envelope(RESUME, EmptyObj),
      Envelope(HEARTBEAT, EmptyObj),
      Envelope(READY, [health |-> JNum(1)]),
      Envelope(HEARTBEAT_ACK, [health |-> JNum(1)]) }

----------------------------------------------------------------------------
(* main.rs, handle_conn: what one turn of the loop does with a text frame.  *)
(* An outcome is the frame sent (if any), the voice sets and the identified *)
(* flag after the turn, whether the task panicked, and for the record the   *)
(* string drawn and the count SADD returned.                                *)

NoDraw == ""

NoSadd == 0 - 1

Reply(frame, sets, ident) ==
    [panic |-> FALSE, send |-> Some(frame), sets |-> sets, identified |-> ident,
     drawn |-> NoDraw, added |-> NoSadd]

Panicked(sets, ident) ==
    [panic |-> TRUE, send |-> None, sets |-> sets, identified |-> ident,
     drawn |-> NoDraw, added |-> NoSadd]

GatedButHeartbeat(ident, op) == ~ident /\ ~(op \in {IDENTIFY, HEARTBEAT})

\* line 125: if !identified && !(op.0 == OpCode::IDENTIFY)
Gated(ident, op) == ~ident /\ ~(op = IDENTIFY)

OnIdentifyFlagNotSet(secret, strs, peer, d, sets, ident) ==
    LET nonce == redis_get(strs, nonce_key(peer))
        ok == verify_token(secret, nonce, d["token"].v)
    IN  IF ok = "panic" THEN Panicked(sets, ident)
        ELSE IF ok = "true" THEN Reply(ReadyMsg, sets, ident)
        ELSE Reply(ErrorFrame(AUTH), sets, ident)

OnIdentifyResetsOnFailure(secret, strs, peer, d, sets, ident) ==
    LET nonce == redis_get(strs, nonce_key(peer))
        ok == verify_token(secret, nonce, d["token"].v)
    IN  IF ok = "panic" THEN Panicked(sets, ident)
        ELSE IF ok = "true" THEN Reply(ReadyMsg, sets, TRUE)
        ELSE Reply(ErrorFrame(AUTH), sets, FALSE)

\* lines 132-158
OnIdentify(secret, strs, peer, d, sets, ident) ==
    LET nonce == redis_get(strs, nonce_key(peer))
        ok == verify_token(secret, nonce, d["token"].v)
    IN  IF ok = "panic" THEN Panicked(sets, ident)
        ELSE IF ok = "true" THEN Reply(ReadyMsg, sets, TRUE)
        ELSE Reply(ErrorFrame(AUTH), sets, ident)

\* lines 189-230
OnChannelReq(data, sets, ident, token) ==
    IF data.variant = CHANNEL_REQ
    THEN LET guild_id == unwrap_or(data.guild_id, "dm")
             ins == hashset_insert({}, token_member(token))
             r == sadd(sets, voice_key(guild_id, data.channel_id), ins.set)
         IN  IF ins.fresh
             THEN [panic |-> FALSE, send |-> Some(ChannelAssignMsg(data, token)),
                   sets |-> r.store, identified |-> ident,
                   drawn |-> token, added |-> r.added]
             ELSE Reply(ErrorFrame(GENERAL), sets, ident)
    ELSE Reply(ErrorFrame(DECODE), sets, ident)

\* lines 232-274
OnVstCreate(data, sets, ident, session_id) ==
    IF data.variant = VST_CREATE
    THEN LET guild_id == unwrap_or(data.guild_id, "dm")
             ins == hashset_insert({}, session_member(session_id))
             r == sadd(sets, voice_key(guild_id, data.channel_id), ins.set)
         IN  IF ins.fresh
             THEN [panic |-> FALSE, send |-> Some(VstDoneMsg(data, session_id)),
                   sets |-> r.store, identified |-> ident,
                   drawn |-> session_id, added |-> r.added]
             ELSE Reply(ErrorFrame(GENERAL), sets, ident)
    ELSE Reply(ErrorFrame(DECODE), sets, ident)

\* lines 180-284
OnInfo(msg, sets, ident, token, session_id) ==
    LET info == get_infotype(msg) IN
    IF info.r = "panic" THEN Panicked(sets, ident)
    ELSE IF info.r = "err" THEN Reply(ErrorFrame(DECODE), sets, ident)
    ELSE IF info.type = CHANNEL_REQ THEN OnChannelReq(info.data, sets, ident, token)
    ELSE IF info.type = CHANNEL_DESTROY THEN Panicked(sets, ident)
    ELSE IF info.type = VST_CREATE THEN OnVstCreate(info.data, sets, ident, session_id)
    ELSE IF info.type = VST_UPDATE THEN Panicked(sets, ident)
    ELSE IF info.type = VST_DESTROY THEN Panicked(sets, ident)
    ELSE Reply(ErrorFrame(DECODE), sets, ident)

\* lines 119-292: the turn for a text frame
OnText(secret, strs, peer, msg, sets, ident, token, session_id) ==
    LET op == get_opcode(msg) IN
    IF op = None THEN Reply(ErrorFrame(DECODE), sets, ident)
    ELSE IF Gated(ident, op[1][1]) THEN Reply(ErrorFrame(AUTH), sets, ident)
    ELSE IF op[1][1] = IDENTIFY
         THEN OnIdentify(secret, strs, peer, op[1][2], sets, ident)
    ELSE IF op[1][1] = RESUME THEN Panicked(sets, ident)
    ELSE IF op[1][1] = HEARTBEAT THEN Reply(HeartbeatAckMsg, sets, ident)
    ELSE IF op[1][1] = INFO THEN OnInfo(msg, sets, ident, token, session_id)
    ELSE Reply(ErrorFrame(DECODE), sets, ident)

----------------------------------------------------------------------------
(* The connection tasks *)

NoFrame == [kind |-> "none"]

Step(ev, peer, frame, send, drawn, added) ==
    [ev |-> ev, peer |-> peer, frame |-> frame, send |-> send,
     drawn |-> drawn, added |-> added]

Quiet(ev, peer, frame) == Step(ev, peer, frame, <<>>, NoDraw, NoSadd)

\* the client of the one-connection specifications
FirstPeer == "10.0.0.1:4000"

harness == <<assigned, inbound, v_in, v_out>>

config == <<env_secret, env_heartbeat>>

Init ==
    /\ env_secret \in Secrets
    /\ env_heartbeat = None
    /\ pc = [p \in Peers |-> IF p = FirstPeer THEN "connecting" ELSE "absent"]
    /\ identified = [p \in Peers |-> FALSE]
    /\ sent = [p \in Peers |-> 0]
    /\ redis_str = EmptyStore
    /\ redis_set = EmptyStore
    /\ nframes = 0
    /\ last = Quiet("init", "", NoFrame)
    /\ v_in = <<>>
    /\ assigned = EmptyStore
    /\ inbound = [p \in Peers |-> "none"]
    /\ v_out = "idle"

\* lines 68-75: the websocket handshake fails and handle_conn returns
HandshakeFailed(p) ==
    /\ pc[p] = "connecting"
    /\ pc' = [pc EXCEPT ![p] = "closed"]
    /\ last' = Quiet("handshake_failed", p, NoFrame)
    /\ UNCHANGED <<config, identified, sent, redis_str, redis_set, nframes, harness>>

\* lines 77-110: the nonce is drawn and stored, HELLO is sent, identified = false
Accept(p) ==
    /\ pc[p] = "connecting"
    /\ \E nonce \in Nonces :
         /\ redis_str' = redis_put(redis_str, nonce_key(p), nonce)
         /\ last' = Step("accept", p, NoFrame, <<HelloMsg(env_heartbeat, nonce)>>,
                         nonce, NoSadd)
    /\ sent' = [sent EXCEPT ![p] = @ + 1]
    /\ pc' = [pc EXCEPT ![p] = "open"]
    /\ identified' = [identified EXCEPT ![p] = FALSE]
    /\ UNCHANGED <<config, redis_set, nframes, harness>>

\* the text frames by what get_opcode makes of them
Undecodable == { m \in TextFrames : get_opcode(m) = None }

Decodable == { m \in TextFrames : get_opcode(m) # None }

OpOf(msg) == get_opcode(msg)[1][1]

WithOp == [op \in HELLO..INFO |-> { m \in Decodable : OpOf(m) = op }]

Running(p) == pc[p] = "open" /\ nframes < MaxFrames

\* lines 207-222: a CHANNEL_ASSIGN sent to p is noted under the key of the
\* channel it names
record_assign(hist, p, send) ==
    IF send = <<>> THEN hist
    ELSE LET v == send[1].body.val IN
         IF v.t # "obj" THEN hist
         ELSE IF v.v["op"].v # INFO THEN hist
         ELSE LET d == v.v["d"].v IN
              IF d["type"].v # CHANNEL_ASSIGN THEN hist
              ELSE LET data == d["data"].v
                       key == voice_key(unwrap_or(OptStrField(data, "guild_id"), "dm"),
                                        data["channel_id"].v)
                       before == IF key \in DOMAIN hist THEN hist[key] ELSE <<>>
                   IN  redis_put(hist, key,
                                 Append(before, [peer |-> p, token |-> data["token"].v]))

TextTurnPanicAborts(p, msg, token, session_id) ==
    /\ Running(p)
    /\ LET o == OnText(env_secret, redis_str, p, msg, redis_set, identified[p],
                       token, session_id)
       IN  /\ pc' = IF o.panic THEN [q \in Peers |-> "panicked"] ELSE pc
           /\ sent' = [sent EXCEPT ![p] = @ + Len(o.send)]
           /\ redis_set' = o.sets
           /\ identified' = [identified EXCEPT ![p] = o.identified]
           /\ last' = Step("text", p, msg, o.send, o.drawn, o.added)
           /\ assigned' = record_assign(assigned, p, o.send)
    /\ nframes' = nframes + 1
    /\ UNCHANGED <<config, redis_str, inbound, v_in, v_out>>

\* lines 114-292: ws_receiver.next() yields a text frame
TextTurn(p, msg, token, session_id) ==
    /\ Running(p)
    /\ LET o == OnText(env_secret, redis_str, p, msg, redis_set, identified[p],
                       token, session_id)
       IN  /\ pc' = [pc EXCEPT ![p] = IF o.panic THEN "panicked" ELSE "open"]
           /\ sent' = [sent EXCEPT ![p] = @ + Len(o.send)]
           /\ redis_set' = o.sets
           /\ identified' = [identified EXCEPT ![p] = o.identified]
           /\ last' = Step("text", p, msg, o.send, o.drawn, o.added)
           /\ assigned' = record_assign(assigned, p, o.send)
    /\ nframes' = nframes + 1
    /\ UNCHANGED <<config, redis_str, inbound, v_in, v_out>>

\* line 291
RecvUndecodable(p) ==
    /\ Running(p)
    /\ \E msg \in Undecodable : TextTurn(p, msg, NoDraw, NoDraw)

\* lines 125-129
RecvBeforeIdentify(p) ==
    /\ Running(p)
    /\ \E op \in HELLO..INFO :
        /\ Gated(identified[p], op)
        /\ \E msg \in WithOp[op] : TextTurn(p, msg, NoDraw, NoDraw)

\* lines 132-158
RecvIdentify(p) ==
    /\ Running(p)
    /\ ~Gated(identified[p], IDENTIFY)
    /\ \E msg \in WithOp[IDENTIFY] : TextTurn(p, msg, NoDraw, NoDraw)

\* lines 160-163
RecvResume(p) ==
    /\ Running(p)
    /\ ~Gated(identified[p], RESUME)
    /\ \E msg \in WithOp[RESUME] : TextTurn(p, msg, NoDraw, NoDraw)

\* lines 165-178
RecvHeartbeat(p) ==
    /\ Running(p)
    /\ ~Gated(identified[p], HEARTBEAT)
    /\ \E msg \in WithOp[HEARTBEAT] : TextTurn(p, msg, NoDraw, NoDraw)

\* lines 180-284: the token (lines 194-198) and the session id (lines
\* 237-241) are drawn inside the branch that uses them
TokenDraws ==
    [msg \in WithOp[INFO] |->
        LET info == get_infotype(msg) IN
        IF info.r = "ok" /\ info.type = CHANNEL_REQ /\ info.data.variant = CHANNEL_REQ
        THEN Tokens ELSE {NoDraw}]

SessionDraws ==
    [msg \in WithOp[INFO] |->
        LET info == get_infotype(msg) IN
        IF info.r = "ok" /\ info.type = VST_CREATE /\ info.data.variant = VST_CREATE
        THEN SessionIds ELSE {NoDraw}]

RecvInfo(p) ==
    /\ Running(p)
    /\ ~Gated(identified[p], INFO)
    /\ \E msg \in WithOp[INFO] :
         \E token \in TokenDraws[msg], session_id \in SessionDraws[msg] :
            TextTurn(p, msg, token, session_id)

\* lines 286-288
RecvOtherOp(p) ==
    /\ Running(p)
    /\ \E op \in {HELLO, READY, HEARTBEAT_ACK} :
        /\ ~Gated(identified[p], op)
        /\ \E msg \in WithOp[op] : TextTurn(p, msg, NoDraw, NoDraw)

\* lines 119, 293: a frame that is neither text nor close is dropped
RecvBinary(p) ==
    /\ pc[p] = "open"
    /\ nframes < MaxFrames
    /\ nframes' = nframes + 1
    /\ last' = Quiet("binary", p, BinaryFrame)
    /\ UNCHANGED <<config, pc, identified, sent, redis_str, redis_set, harness>>

\* lines 293-294: a close frame breaks the loop
RecvClose(p) ==
    /\ pc[p] = "open"
    /\ pc' = [pc EXCEPT ![p] = "closed"]
    /\ last' = Quiet("close", p, CloseFrame)
    /\ UNCHANGED <<config, identified, sent, redis_str, redis_set, nframes, harness>>

\* line 297: the stream ends
StreamEnd(p) ==
    /\ pc[p] = "open"
    /\ pc' = [pc EXCEPT ![p] = "closed"]
    /\ last' = Quiet("eof", p, NoFrame)
    /\ UNCHANGED <<config, identified, sent, redis_str, redis_set, nframes, harness>>

\* line 117: the stream yields an error and handle_conn returns it
StreamError(p) ==
    /\ pc[p] = "open"
    /\ pc' = [pc EXCEPT ![p] = "closed"]
    /\ last' = Quiet("error", p, NoFrame)
    /\ UNCHANGED <<config, identified, sent, redis_str, redis_set, nframes, harness>>

TickSendsDeez(p) ==
    /\ pc[p] = "open"
    /\ sent' = [sent EXCEPT ![p] = @ + 1]
    /\ last' = Step("tick", p, NoFrame, <<TextFrame(Raw("deez"))>>, NoDraw, NoSadd)
    /\ UNCHANGED <<config, pc, identified, redis_str, redis_set, nframes, harness>>

\* lines 300-302: the heartbeat interval ticks
Tick(p) ==
    /\ pc[p] = "open"
    /\ last' = Quiet("tick", p, NoFrame)
    /\ UNCHANGED <<config, pc, identified, sent, redis_str, redis_set, nframes, harness>>

Next ==
    \E p \in Peers :
        \/ HandshakeFailed(p)
        \/ Accept(p)
        \/ RecvUndecodable(p)
        \/ RecvBeforeIdentify(p)
        \/ RecvIdentify(p)
        \/ RecvResume(p)
        \/ RecvHeartbeat(p)
        \/ RecvInfo(p)
        \/ RecvOtherOp(p)
        \/ RecvBinary(p)
        \/ RecvClose(p)
        \/ StreamEnd(p)
        \/ StreamError(p)
        \/ Tick(p)

Spec == Init /\ [][Next]_vars

\* the same server under each setting of HEARTBEAT_INTERVAL
InitHello ==
    /\ env_secret = "s3cret"
    /\ env_heartbeat \in HeartbeatEnvs
    /\ pc = [p \in Peers |-> IF p = FirstPeer THEN "connecting" ELSE "absent"]
    /\ identified = [p \in Peers |-> FALSE]
    /\ sent = [p \in Peers |-> 0]
    /\ redis_str = EmptyStore
    /\ redis_set = EmptyStore
    /\ nframes = 0
    /\ last = Quiet("init", "", NoFrame)
    /\ v_in = <<>>
    /\ assigned = EmptyStore
    /\ inbound = [p \in Peers |-> "none"]
    /\ v_out = "idle"

SpecHello == InitHello /\ [][Next]_vars

----------------------------------------------------------------------------
(* The verifier on its own: every secret, nonce and token of the bounded    *)
(* sets is presented to verify_token once.                                  *)

VerifyInputs ==
    Secrets \X ({None} \cup { Some(n) : n \in Nonces })
            \X TokensUpTo(MaxTokenLen)

InitVerify ==
    /\ env_secret = "s3cret"
    /\ env_heartbeat = None
    /\ pc = [p \in Peers |-> "connecting"]
    /\ identified = [p \in Peers |-> FALSE]
    /\ sent = [p \in Peers |-> 0]
    /\ redis_str = EmptyStore
    /\ redis_set = EmptyStore
    /\ nframes = 0
    /\ last = Quiet("init", "", NoFrame)
    /\ assigned = EmptyStore
    /\ inbound = [p \in Peers |-> "none"]
    /\ v_in \in VerifyInputs
    /\ v_out = "pending"

VerifyCall ==
    /\ v_out = "pending"
    /\ v_out' = verify_token(v_in[1], v_in[2], v_in[3])
    /\ UNCHANGED <<config, pc, identified, sent, redis_str, redis_set, nframes, last, assigned, inbound, v_in>>

NextVerify == VerifyCall

SpecVerify == InitVerify /\ [][NextVerify]_vars

----------------------------------------------------------------------------
(* Reading the step just taken *)

\* the step into the primed state is a turn of p's loop on a text frame
TextStep(p) == last'.ev = "text" /\ last'.peer = p

Decodes(frame) == frame.kind = "text" /\ get_opcode(frame) # None

PayloadOf(frame) == frame.body.val.v["d"].v

\* the peer's nonce as the store holds it, and the proof a client computes
\* from it
StoredNonce(p) == redis_get(redis_str, nonce_key(p))

ProofFor(secret, nonce) == hex_encode(HmacSha256(secret, nonce))

PresentsProof(p, frame) ==
    /\ StoredNonce(p) # None
    /\ PayloadOf(frame)["token"].v = ProofFor(env_secret, StoredNonce(p)[1])

----------------------------------------------------------------------------
(* C1: while a connection is not identified, a decoded frame whose op is    *)
(* not IDENTIFY is answered with the one frame 4001 and changes nothing:    *)
(* the connection stays open and unidentified and the store is untouched.   *)
GatingInvariant ==
    [][ \A p \in Peers :
          ( /\ TextStep(p)
            /\ ~identified[p]
            /\ Decodes(last'.frame)
            /\ OpOf(last'.frame) # IDENTIFY )
          => /\ last'.send = <<ErrorFrame(AUTH)>>
             /\ sent'[p] = sent[p] + 1
             /\ identified'[p] = FALSE
             /\ pc'[p] = "open"
             /\ redis_str' = redis_str
             /\ redis_set' = redis_set ]_vars

\* a HEARTBEAT was taken from an unidentified peer and answered 4001
GatedHeartbeatSeen ==
    /\ last.ev = "text"
    /\ Decodes(last.frame)
    /\ OpOf(last.frame) = HEARTBEAT
    /\ ~identified[last.peer]
    /\ last.send = <<ErrorFrame(AUTH)>>

(* C2: an IDENTIFY from an unidentified peer that presents the hex HMAC of  *)
(* the stored nonce under the secret makes the connection identified and is *)
(* answered READY; and READY is only ever sent in answer to an IDENTIFY     *)
(* whose token hex-decodes to that HMAC.                                    *)
IdentifySuccess ==
    [][ \A p \in Peers :
          /\ ( /\ TextStep(p)
               /\ ~identified[p]
               /\ Decodes(last'.frame)
               /\ OpOf(last'.frame) = IDENTIFY
               /\ PresentsProof(p, last'.frame) )
             => /\ identified'[p]
                /\ pc'[p] = "open"
                /\ last'.send = <<ReadyMsg>>
          /\ ( last'.peer = p /\ \E i \in 1..Len(last'.send) : last'.send[i] = ReadyMsg )
             => /\ TextStep(p)
                /\ Decodes(last'.frame)
                /\ OpOf(last'.frame) = IDENTIFY
                /\ StoredNonce(p) # None
                /\ hex_decode(PayloadOf(last'.frame)["token"].v)
                     = Some(HmacSha256(env_secret, StoredNonce(p)[1])) ]_vars

\* a peer has just become identified on presenting its proof
IdentifiedByProof ==
    /\ last.ev = "text"
    /\ Decodes(last.frame)
    /\ OpOf(last.frame) = IDENTIFY
    /\ PresentsProof(last.peer, last.frame)
    /\ identified[last.peer]
    /\ last.send = <<ReadyMsg>>

(* C3: an IDENTIFY from an unidentified peer that fails verification (the   *)
(* token is not the proof, or no nonce is stored) is answered 4001 and      *)
(* leaves the connection open and unidentified, so that a later IDENTIFY is *)
(* still taken.                                                             *)
IdentifyFailureKeepsConnection ==
    [][ \A p \in Peers :
          ( /\ TextStep(p)
            /\ ~identified[p]
            /\ Decodes(last'.frame)
            /\ OpOf(last'.frame) = IDENTIFY
            /\ \/ StoredNonce(p) = None
               \/ hex_decode(PayloadOf(last'.frame)["token"].v)
                    # Some(HmacSha256(env_secret, StoredNonce(p)[1])) )
          => /\ last'.send = <<ErrorFrame(AUTH)>>
             /\ identified'[p] = FALSE
             /\ pc'[p] = "open" ]_vars

(* C4: verify is true exactly when the token is the hex HMAC of the nonce   *)
(* under the secret, and false for every other secret, nonce or token and   *)
(* whenever the nonce is absent.                                            *)
VerifyDecidesHmacMatch ==
    v_out \notin {"idle", "pending"} =>
        LET secret == v_in[1]
            nonce == v_in[2]
            token == v_in[3]
        IN  IF nonce # None /\ token = ProofFor(secret, nonce[1])
            THEN v_out = "true"
            ELSE v_out = "false"

(* C5: verify always returns: it is false, and no panic, when the nonce is  *)
(* absent, when the token is not valid hex, and when the HMAC differs.      *)
VerifyIsTotal ==
    v_out \notin {"idle", "pending"} =>
        LET secret == v_in[1]
            nonce == v_in[2]
            token == v_in[3]
        IN  /\ v_out \in {"true", "false"}
            /\ ( \/ nonce = None
                 \/ hex_decode(token) = None
                 \/ hex_decode(token) # Some(HmacSha256(secret, nonce[1])) )
               => v_out = "false"

----------------------------------------------------------------------------
(* Reading HELLO and INFO frames *)

OpField(frame) == frame.body.val.v["op"].v

HelloInterval(frame) == PayloadOf(frame)["heartbeat_interval"].v

HelloNonce(frame) == PayloadOf(frame)["nonce"].v

\* the events in which the loop takes something from the stream
FrameEvents == {"text", "binary", "close", "eof", "error"}

\* p is accepted in this step: HELLO is the first and only frame sent, its
\* nonce has ten characters and is what the store holds under p's key
HelloIsFirst(p) ==
    /\ sent[p] = 0
    /\ sent'[p] = 1
    /\ last'.ev = "accept"
    /\ Len(last'.send) = 1
    /\ OpField(last'.send[1]) = HELLO
    /\ Len(HelloNonce(last'.send[1])) = 10
    /\ redis_get(redis_str', nonce_key(p)) = Some(HelloNonce(last'.send[1]))

\* nothing is taken from p's stream, and nothing else is sent to p, before
\* its HELLO
NothingBeforeHello(p) ==
    /\ (last'.peer = p /\ last'.ev \in FrameEvents) => sent[p] >= 1
    /\ (last'.peer = p /\ last'.send # <<>> /\ sent[p] = 0) => last'.ev = "accept"

(* C6: for every configured interval h >= 0 (a HEARTBEAT_INTERVAL that     *)
(* parses as i32) the first frame of an accepted connection is HELLO        *)
(* carrying h and a ten-character nonce equal to the one the store holds    *)
(* under the peer's key, and it is sent before any inbound frame is taken.  *)
HelloCarriesConfiguredInterval ==
    [][ \A p \in Peers :
          /\ NothingBeforeHello(p)
          /\ (pc[p] = "connecting" /\ pc'[p] = "open") =>
                /\ HelloIsFirst(p)
                /\ ( /\ env_heartbeat # None
                     /\ env_heartbeat[1].numeral
                     /\ env_heartbeat[1].i32
                     /\ env_heartbeat[1].n >= 0 )
                   => HelloInterval(last'.send[1]) = env_heartbeat[1].n ]_vars

\* a connection was accepted under HEARTBEAT_INTERVAL=1000 and told so
HelloWithConfiguredInterval ==
    /\ last.ev = "accept"
    /\ env_heartbeat = Some(Numeral(1000))
    /\ sent[last.peer] = 1
    /\ HelloInterval(last.send[1]) = 1000

IsInfo(frame) == Decodes(frame) /\ OpOf(frame) = INFO

InfoTag(frame) == PayloadOf(frame)["type"].v

InfoPayload(frame) == PayloadOf(frame)["data"].v

\* the payloads of the wire table: {channel_id, guild_id?},
\* {user_id, channel_id, guild_id?} and {session_id}
ChannelShape(pl) ==
    /\ DOMAIN pl \subseteq {"channel_id", "guild_id"}
    /\ IsStrField(pl, "channel_id")
    /\ IsOptStrField(pl, "guild_id")

VoiceStateShape(pl) ==
    /\ DOMAIN pl \subseteq {"user_id", "channel_id", "guild_id"}
    /\ IsStrField(pl, "user_id")
    /\ IsStrField(pl, "channel_id")
    /\ IsOptStrField(pl, "guild_id")

SessionShape(pl) == DOMAIN pl = {"session_id"} /\ IsStrField(pl, "session_id")

WireShape(tag, pl) ==
    CASE tag \in {CHANNEL_REQ, CHANNEL_DESTROY} -> ChannelShape(pl)
      [] tag = VST_CREATE -> VoiceStateShape(pl)
      [] tag \in {VST_DESTROY, VST_UPDATE} -> SessionShape(pl)
      [] OTHER -> FALSE

GuildOrNull(pl) == IF IsStrField(pl, "guild_id") THEN pl["guild_id"] ELSE JNull

ExpectedKey(pl) ==
    (IF IsStrField(pl, "guild_id") THEN pl["guild_id"].v ELSE "dm")
        \o "_" \o pl["channel_id"].v \o "_voice"

ExpectedAssign(pl, token) ==
    Envelope(INFO, [type |-> JNum(CHANNEL_ASSIGN),
                    data |-> JObj([channel_id |-> pl["channel_id"],
                                   guild_id |-> GuildOrNull(pl),
                                   token |-> JStr(token)])])

ExpectedVstDone(pl, session_id) ==
    Envelope(INFO, [type |-> JNum(VST_DONE),
                    data |-> JObj([user_id |-> pl["user_id"],
                                   channel_id |-> pl["channel_id"],
                                   guild_id |-> GuildOrNull(pl),
                                   session_id |-> JStr(session_id)])])

\* p, identified, has its loop take an INFO frame tagged `tag`
InfoStep(p, tag) ==
    /\ TextStep(p)
    /\ identified[p]
    /\ IsInfo(last'.frame)
    /\ InfoTag(last'.frame) = tag

(* C7, as claimed: a CHANNEL_REQ on an identified connection adds the       *)
(* 64-character token it draws, itself, to the set                          *)
(* "{guild_id or dm}_{channel_id}_voice", and when SADD reports one new     *)
(* member the reply is CHANNEL_ASSIGN with the request's channel_id and     *)
(* guild_id (null when absent) and that token.                              *)
ChannelReqAddsToken ==
    [][ \A p \in Peers :
          (InfoStep(p, CHANNEL_REQ) /\ ChannelShape(InfoPayload(last'.frame))) =>
             LET pl == InfoPayload(last'.frame) IN
             /\ Len(last'.drawn) = 64
             /\ last'.drawn \in smembers(redis_set', ExpectedKey(pl))
             /\ last'.added = 1 =>
                  last'.send = <<ExpectedAssign(pl, last'.drawn)>> ]_vars

(* C7, amended: the member added is "token_" followed by the token; the     *)
(* set of that key gains that member and no other set changes, and when     *)
(* SADD reports one new member the reply is CHANNEL_ASSIGN with the         *)
(* request's ids and the bare token.                                        *)
ChannelReqAddsPrefixedToken ==
    [][ \A p \in Peers :
          (InfoStep(p, CHANNEL_REQ) /\ ChannelShape(InfoPayload(last'.frame))) =>
             LET pl == InfoPayload(last'.frame)
                 key == ExpectedKey(pl)
                 member == "token_" \o last'.drawn
             IN  /\ Len(last'.drawn) = 64
                 /\ DOMAIN redis_set' = DOMAIN redis_set \cup {key}
                 /\ redis_set'[key] = smembers(redis_set, key) \cup {member}
                 /\ \A k \in DOMAIN redis_set : k # key => redis_set'[k] = redis_set[k]
                 /\ last'.added = 1 =>
                      last'.send = <<ExpectedAssign(pl, last'.drawn)>> ]_vars

\* a CHANNEL_REQ without guild was answered CHANNEL_ASSIGN with a null guild
\* and the set "dm_c1_voice" holds the prefixed token
ChannelAssignedInDm ==
    /\ last.ev = "text"
    /\ IsInfo(last.frame)
    /\ InfoTag(last.frame) = CHANNEL_REQ
    /\ InfoPayload(last.frame) = [channel_id |-> JStr("c1")]
    /\ last.added = 1
    /\ last.send = <<ExpectedAssign(InfoPayload(last.frame), last.drawn)>>
    /\ ("token_" \o last.drawn) \in smembers(redis_set, "dm_c1_voice")

(* C8: whenever the SADD of a CHANNEL_REQ or VST_CREATE reports no new      *)
(* member, the reply is the one frame 4000 and no CHANNEL_ASSIGN / VST_DONE *)
(* is sent.                                                                 *)
ConflictYieldsGeneral ==
    [][ \A p \in Peers :
          (TextStep(p) /\ last'.added = 0) => last'.send = <<ErrorFrame(GENERAL)>> ]_vars

(* C9: a VST_CREATE with a well-formed payload on an identified connection  *)
(* draws a 32-character session id, adds it to the set                      *)
(* "{guild_id or dm}_{channel_id}_voice" and is answered VST_DONE with the  *)
(* request's user_id, channel_id, guild_id and that session id.             *)
VstCreateYieldsVstDone ==
    [][ \A p \in Peers :
          (InfoStep(p, VST_CREATE) /\ VoiceStateShape(InfoPayload(last'.frame))) =>
             LET pl == InfoPayload(last'.frame) IN
             /\ Len(last'.drawn) = 32
             /\ last'.drawn \in smembers(redis_set', ExpectedKey(pl))
             /\ last'.send = <<ExpectedVstDone(pl, last'.drawn)>> ]_vars

(* C10: an INFO whose payload has the wire shape of another type than its   *)
(* tag is answered 4002, leaves the store as it was and yields no           *)
(* CHANNEL_ASSIGN or VST_DONE.  Stated for the tags that have a handler,    *)
(* CHANNEL_REQ and VST_CREATE.                                              *)
MismatchedInfoYieldsDecode ==
    [][ \A p \in Peers : \A tag \in {CHANNEL_REQ, VST_CREATE} :
          ( /\ InfoStep(p, tag)
            /\ ~WireShape(tag, InfoPayload(last'.frame))
            /\ \E other \in CHANNEL_REQ..VST_UPDATE :
                   WireShape(other, InfoPayload(last'.frame)) )
          => /\ last'.send = <<ErrorFrame(DECODE)>>
             /\ redis_set' = redis_set ]_vars

IsErrorCode(frame) ==
    frame \in {ErrorFrame(GENERAL), ErrorFrame(AUTH), ErrorFrame(DECODE)}

(* C11: on an identified connection a RESUME, and an INFO of type           *)
(* CHANNEL_DESTROY, VST_UPDATE or VST_DESTROY with the payload of its type, *)
(* is answered with one failure signal and the connection task goes on: it  *)
(* does not panic and the frame is not passed over in silence.              *)
UnimplementedIsReported ==
    [][ \A p \in Peers :
          ( /\ TextStep(p)
            /\ identified[p]
            /\ Decodes(last'.frame)
            /\ \/ OpOf(last'.frame) = RESUME
               \/ /\ OpOf(last'.frame) = INFO
                  /\ InfoTag(last'.frame) \in {CHANNEL_DESTROY, VST_UPDATE, VST_DESTROY}
                  /\ WireShape(InfoTag(last'.frame), InfoPayload(last'.frame)) )
          => /\ pc'[p] = "open"
             /\ Len(last'.send) = 1
             /\ IsErrorCode(last'.send[1]) ]_vars

ExpectedHeartbeatAck == Envelope(HEARTBEAT_ACK, [health |-> Health])

(* C12: a HEARTBEAT taken from an identified connection is answered with    *)
(* exactly one HEARTBEAT_ACK{health}; the connection stays open and         *)
(* identified and the store is as before.                                   *)
HeartbeatIsAcked ==
    [][ \A p \in Peers :
          ( /\ TextStep(p)
            /\ identified[p]
            /\ Decodes(last'.frame)
            /\ OpOf(last'.frame) = HEARTBEAT )
          => /\ last'.send = <<ExpectedHeartbeatAck>>
             /\ sent'[p] = sent[p] + 1
             /\ pc'[p] = "open"
             /\ identified'[p]
             /\ redis_str' = redis_str
             /\ redis_set' = redis_set ]_vars

\* an identified peer has just had its HEARTBEAT acknowledged
HeartbeatAckSeen ==
    /\ last.ev = "text"
    /\ Decodes(last.frame)
    /\ OpOf(last.frame) = HEARTBEAT
    /\ identified[last.peer]
    /\ sent[last.peer] >= 3
    /\ last.send = <<ExpectedHeartbeatAck>>

----------------------------------------------------------------------------
(* The INFO codec on its own: every INFO value of the bounded sets is       *)
(* written as main.rs writes a reply and read back with get_infotype.       *)

ChannelIds == {"c1", "c2"}

GuildIds == {None, Some("g1"), Some("g2")}

UserIds == {"u1", "u2"}

\* the values of enum InfoData, variant by variant
InfoValues ==
    { [variant |-> CHANNEL_REQ, channel_id |-> c, guild_id |-> g] :
        c \in ChannelIds, g \in GuildIds }
    \cup { [variant |-> CHANNEL_ASSIGN, channel_id |-> c, guild_id |-> g, token |-> t] :
        c \in ChannelIds, g \in GuildIds, t \in Tokens }
    \cup { [variant |-> CHANNEL_DESTROY, channel_id |-> c, guild_id |-> g] :
        c \in ChannelIds, g \in GuildIds }
    \cup { [variant |-> VST_CREATE, user_id |-> u, channel_id |-> c, guild_id |-> g] :
        u \in UserIds, c \in ChannelIds, g \in GuildIds }
    \cup { [variant |-> VST_DONE, user_id |-> u, channel_id |-> c, guild_id |-> g,
            session_id |-> s] :
        u \in UserIds, c \in ChannelIds, g \in GuildIds, s \in SessionIds }
    \cup { [variant |-> VST_DESTROY, session_id |-> s] : s \in SessionIds }
    \cup { [variant |-> VST_UPDATE, session_id |-> s] : s \in SessionIds }

\* derive(Serialize) on the untagged enum: the fields of the variant and
\* nothing that names it
serialize_info_data(x) ==
    CASE x.variant \in {CHANNEL_REQ, CHANNEL_DESTROY} ->
            [channel_id |-> JStr(x.channel_id), guild_id |-> JOpt(x.guild_id)]
      [] x.variant = CHANNEL_ASSIGN ->
            [channel_id |-> JStr(x.channel_id), guild_id |-> JOpt(x.guild_id),
             token |-> JStr(x.token)]
      [] x.variant = VST_CREATE ->
            [user_id |-> JStr(x.user_id), channel_id |-> JStr(x.channel_id),
             guild_id |-> JOpt(x.guild_id)]
      [] x.variant = VST_DONE ->
            [user_id |-> JStr(x.user_id), channel_id |-> JStr(x.channel_id),
             guild_id |-> JOpt(x.guild_id), session_id |-> JStr(x.session_id)]
      [] x.variant \in {VST_DESTROY, VST_UPDATE} ->
            [session_id |-> JStr(x.session_id)]

\* SocketMessage { op: INFO, d: MessageData::INFO { _type, data } } as text
InfoMsg(x) ==
    SocketMessage(INFO, [type |-> JNum(x.variant),
                         data |-> JObj(serialize_info_data(x))])

InitCodec ==
    /\ env_secret = "s3cret"
    /\ env_heartbeat = None
    /\ pc = [p \in Peers |-> "connecting"]
    /\ identified = [p \in Peers |-> FALSE]
    /\ sent = [p \in Peers |-> 0]
    /\ redis_str = EmptyStore
    /\ redis_set = EmptyStore
    /\ nframes = 0
    /\ last = Quiet("init", "", NoFrame)
    /\ assigned = EmptyStore
    /\ inbound = [p \in Peers |-> "none"]
    /\ v_in \in InfoValues
    /\ v_out = [r |-> "pending"]

CodecCall ==
    /\ v_out.r = "pending"
    /\ v_out' = get_infotype(InfoMsg(v_in))
    /\ UNCHANGED <<config, pc, identified, sent, redis_str, redis_set, nframes, last, assigned, inbound, v_in>>

NextCodec == CodecCall

SpecCodec == InitCodec /\ [][NextCodec]_vars

(* C13: every INFO value, written and read back, is the same variant with   *)
(* the same fields: CHANNEL_ASSIGN and VST_DONE included, guild_id present   *)
(* or absent.                                                               *)
InfoCodecRoundTrip ==
    v_out.r # "pending" =>
        /\ v_out.r = "ok"
        /\ v_out.type = v_in.variant
        /\ v_out.data = v_in

----------------------------------------------------------------------------
(* C14: for every channel key, the CHANNEL_ASSIGN replies sent so far carry *)
(* pairwise distinct tokens and are no more than the elements of the        *)
(* channel's set.                                                           *)
AssignsAreDistinctEntries ==
    \A k \in DOMAIN assigned :
        /\ Len(assigned[k]) <= Cardinality(smembers(redis_set, k))
        /\ \A i, j \in 1..Len(assigned[k]) :
              i # j => assigned[k][i].token # assigned[k][j].token

----------------------------------------------------------------------------
(* Two connections: the first peer has been accepted and has identified,    *)
(* the second is connecting.  nframes counts the frames taken from here on. *)

SecondPeer == "10.0.0.2:4000"

InitTwo ==
    /\ env_secret = "s3cret"
    /\ env_heartbeat = None
    /\ pc = [p \in Peers |-> IF p = FirstPeer THEN "open" ELSE "connecting"]
    /\ identified = [p \in Peers |-> p = FirstPeer]
    /\ sent = [p \in Peers |-> IF p = FirstPeer THEN 2 ELSE 0]
    /\ redis_str = redis_put(EmptyStore, nonce_key(FirstPeer), Repeat("a", NonceLen))
    /\ redis_set = EmptyStore
    /\ nframes = 0
    /\ last = Quiet("init", "", NoFrame)
    /\ assigned = EmptyStore
    /\ inbound = [p \in Peers |-> "none"]
    /\ v_in = <<>>
    /\ v_out = "idle"

SpecTwo == InitTwo /\ [][Next]_vars

(* C15: when two connections allocate for the same channel key and draw the *)
(* same element, at most one of them is answered CHANNEL_ASSIGN: no token   *)
(* has been assigned for one key to two different peers.                    *)
AtMostOneObservesSuccess ==
    \A k \in DOMAIN assigned :
        \A i, j \in 1..Len(assigned[k]) :
            assigned[k][i].peer # assigned[k][j].peer
                => assigned[k][i].token # assigned[k][j].token

----------------------------------------------------------------------------
\* the replies that report success
IsSuccessReply(frame) ==
    /\ frame.body.val.t = "obj"
    /\ OpField(frame) \in {READY, HEARTBEAT_ACK, INFO}

(* C16: every text frame taken from an open connection is answered with     *)
(* exactly one frame, a success reply or one of 4000, 4001, 4002; the       *)
(* connection stays open, and when the answer is a code the identified flag *)
(* and the store are as before.                                             *)
FailureYieldsOneCode ==
    [][ \A p \in Peers :
          TextStep(p) =>
             /\ pc'[p] = "open"
             /\ Len(last'.send) = 1
             /\ IsSuccessReply(last'.send[1]) \/ IsErrorCode(last'.send[1])
             /\ IsErrorCode(last'.send[1]) =>
                  /\ identified'[p] = identified[p]
                  /\ redis_str' = redis_str
                  /\ redis_set' = redis_set ]_vars

(* C17: the identified flag of a connection is false when the connection   *)
(* is accepted and never goes from true to false.                           *)
IdentifiedIsMonotonic ==
    [][ \A p \in Peers :
          /\ (pc[p] = "connecting" /\ pc'[p] = "open") => ~identified'[p]
          /\ identified[p] => identified'[p] ]_vars

\* an identified peer presented an IDENTIFY that is valid hex but not its
\* proof, was answered 4001 and is still identified
StillIdentifiedAfterAuthFailure ==
    /\ last.ev = "text"
    /\ Decodes(last.frame)
    /\ OpOf(last.frame) = IDENTIFY
    /\ last.send = <<ErrorFrame(AUTH)>>
    /\ sent[last.peer] >= 3
    /\ identified[last.peer]

----------------------------------------------------------------------------
(* The two connections again, with FirstPeer's IDENTIFY counted among the   *)
(* frames taken.                                                            *)

InitPair ==
    /\ env_secret = "s3cret"
    /\ env_heartbeat = None
    /\ pc = [p \in Peers |-> IF p = FirstPeer THEN "open" ELSE "connecting"]
    /\ identified = [p \in Peers |-> p = FirstPeer]
    /\ sent = [p \in Peers |-> IF p = FirstPeer THEN 2 ELSE 0]
    /\ redis_str = redis_put(EmptyStore, nonce_key(FirstPeer), Repeat("a", NonceLen))
    /\ redis_set = EmptyStore
    /\ nframes = 1
    /\ last = Quiet("init", "", NoFrame)
    /\ assigned = EmptyStore
    /\ inbound = [p \in Peers |-> "none"]
    /\ v_in = <<>>
    /\ v_out = "idle"

SpecPair == InitPair /\ [][Next]_vars

Ended == {"closed", "panicked"}

(* C18: in the step in which one connection's task ends (handshake failure, *)
(* close, end of stream, transport error or panic) every other connection   *)
(* keeps its place, its identified flag, its frames sent and its stored     *)
(* nonce, and the channel sets are as before.                               *)
TerminationIsIsolated ==
    [][ \A p \in Peers :
          (pc[p] \notin Ended /\ pc'[p] \in Ended) =>
             /\ redis_set' = redis_set
             /\ \A q \in Peers \ {p} :
                   /\ pc'[q] = pc[q]
                   /\ identified'[q] = identified[q]
                   /\ sent'[q] = sent[q]
                   /\ redis_get(redis_str', nonce_key(q))
                        = redis_get(redis_str, nonce_key(q)) ]_vars

\* FirstPeer's task has panicked and SecondPeer's has since taken a frame and
\* answered it
SurvivorStillServed ==
    /\ pc[FirstPeer] = "panicked"
    /\ pc[SecondPeer] = "open"
    /\ last.ev = "text"
    /\ last.peer = SecondPeer
    /\ Len(last.send) = 1

----------------------------------------------------------------------------
(* C19: a timer tick sends nothing and leaves every connection and the      *)
(* store as they were; and a frame is only ever sent to a connection in the *)
(* step that accepts it or that takes the inbound frame it answers, so that *)
(* replies leave in the order the inbound frames arrived, whatever ticks    *)
(* fall between them.                                                       *)
TickDoesNothing ==
    [][ /\ last'.ev = "tick" =>
             /\ last'.send = <<>>
             /\ pc' = pc
             /\ identified' = identified
             /\ sent' = sent
             /\ redis_str' = redis_str
             /\ redis_set' = redis_set
        /\ \A p \in Peers :
             sent'[p] # sent[p] =>
                /\ last'.peer = p
                /\ last'.ev \in {"accept", "text"}
                /\ sent'[p] = sent[p] + Len(last'.send) ]_vars

\* the timer has ticked on an identified connection that has been answered
\* three times, and nothing was sent
TickBetweenReplies ==
    /\ last.ev = "tick"
    /\ identified[last.peer]
    /\ sent[last.peer] = 3
    /\ last.send = <<>>

(* C20: in every step every channel set is a superset of what it was: no    *)
(* key and no member is ever removed.                                       *)
ChannelSetsOnlyGrow ==
    [][ \A k \in DOMAIN redis_set :
          /\ k \in DOMAIN redis_set'
          /\ redis_set[k] \subseteq redis_set'[k] ]_vars

\* a channel set has grown twice
ChannelSetHasTwoMembers ==
    \E k \in DOMAIN redis_set : Cardinality(redis_set[k]) >= 2

----------------------------------------------------------------------------
(* C21: the nonce stored under a connection's key is written when the       *)
(* connection is accepted and not changed afterwards, and it serves one     *)
(* IDENTIFY exchange: once the connection has identified with it, an        *)
(* IDENTIFY presenting the proof computed from it is not answered READY.    *)
NonceIsSingleUse ==
    [][ \A p \in Peers :
          /\ (pc[p] = "open" /\ StoredNonce(p) # None) =>
                redis_get(redis_str', nonce_key(p)) = StoredNonce(p)
          /\ ( /\ TextStep(p)
               /\ identified[p]
               /\ Decodes(last'.frame)
               /\ OpOf(last'.frame) = IDENTIFY
               /\ PresentsProof(p, last'.frame) )
             => last'.send # <<ReadyMsg>> ]_vars

----------------------------------------------------------------------------
(* The end of a connection, with the arrival of what ends the stream told   *)
(* apart from the loop taking it: between the two only the timer can run.   *)

\* the client closes: a close frame is the next item of p's stream
CloseArrives(p) ==
    /\ pc[p] = "open"
    /\ inbound[p] = "none"
    /\ inbound' = [inbound EXCEPT ![p] = "close"]
    /\ UNCHANGED <<config, pc, identified, sent, redis_str, redis_set, nframes, last,
                   assigned, v_in, v_out>>

\* the transport goes away: the stream's next item is None
EndArrives(p) ==
    /\ pc[p] = "open"
    /\ inbound[p] = "none"
    /\ inbound' = [inbound EXCEPT ![p] = "eof"]
    /\ UNCHANGED <<config, pc, identified, sent, redis_str, redis_set, nframes, last,
                   assigned, v_in, v_out>>

TakeCloseKeepsLooping(p) ==
    /\ pc[p] = "open"
    /\ inbound[p] = "close"
    /\ inbound' = [inbound EXCEPT ![p] = "none"]
    /\ last' = Quiet("close", p, CloseFrame)
    /\ UNCHANGED <<config, pc, identified, sent, redis_str, redis_set, nframes,
                   assigned, v_in, v_out>>

\* lines 293-294: select! yields the close frame and the loop breaks
TakeClose(p) ==
    /\ pc[p] = "open"
    /\ inbound[p] = "close"
    /\ pc' = [pc EXCEPT ![p] = "closed"]
    /\ last' = Quiet("close", p, CloseFrame)
    /\ UNCHANGED <<config, identified, sent, redis_str, redis_set, nframes, harness>>

\* line 297: select! yields None and the loop breaks
TakeEnd(p) ==
    /\ pc[p] = "open"
    /\ inbound[p] = "eof"
    /\ pc' = [pc EXCEPT ![p] = "closed"]
    /\ last' = Quiet("eof", p, NoFrame)
    /\ UNCHANGED <<config, identified, sent, redis_str, redis_set, nframes, harness>>

\* frames are taken in the order they arrived: none after the close
StreamOpen(p) == inbound[p] = "none"

NextClose ==
    \E p \in Peers :
        \/ Accept(p)
        \/ StreamOpen(p) /\ RecvBeforeIdentify(p)
        \/ StreamOpen(p) /\ RecvIdentify(p)
        \/ StreamOpen(p) /\ RecvHeartbeat(p)
        \/ CloseArrives(p)
        \/ EndArrives(p)
        \/ TakeClose(p)
        \/ TakeEnd(p)
        \/ Tick(p)

\* select! polls ws_receiver.next() in every turn of the loop and the timer
\* is ready once a second only: an item that waits is taken
SpecClose ==
    /\ InitHello
    /\ [][NextClose]_vars
    /\ \A p \in Peers : WF_vars(TakeClose(p)) /\ WF_vars(TakeEnd(p))

(* C22: when the loop takes a close frame or the end of the stream the      *)
(* connection is closed and nothing is sent; between the arrival of the     *)
(* close and that step no frame is taken and nothing is sent; a closed      *)
(* connection stays closed, sends nothing and takes no frame; and a close   *)
(* that has arrived leads to closed, whatever the timer does.               *)
CloseTerminates ==
    /\ [][ \A p \in Peers :
             /\ (last'.peer = p /\ last'.ev \in {"close", "eof"}) =>
                   /\ pc'[p] = "closed"
                   /\ last'.send = <<>>
                   /\ sent' = sent
             /\ (pc[p] = "open" /\ inbound[p] # "none") =>
                   /\ sent'[p] = sent[p]
                   /\ nframes' = nframes
                   /\ pc'[p] \in {"open", "closed"}
             /\ pc[p] = "closed" =>
                   /\ pc'[p] = "closed"
                   /\ sent'[p] = sent[p]
                   /\ last'.peer # p ]_vars
    /\ \A p \in Peers :
          (pc[p] = "open" /\ inbound[p] # "none") ~> (pc[p] = "closed")

\* an identified connection has been closed by a close frame
ClosedAfterIdentify ==
    /\ last.ev = "close"
    /\ pc[last.peer] = "closed"
    /\ identified[last.peer]
    /\ sent[last.peer] = 2

----------------------------------------------------------------------------
(* C23: every text frame the loop takes, from an identified connection or   *)
(* not, is answered with exactly one frame on the same connection.          *)
ExactlyOneReply ==
    [][ \A p \in Peers :
          TextStep(p) =>
             /\ Len(last'.send) = 1
             /\ sent'[p] = sent[p] + 1
             /\ \A q \in Peers \ {p} : sent'[q] = sent[q] ]_vars

(* C24: an IDENTIFY taken from a connection that is already identified is   *)
(* verified against the stored nonce: READY when the token is the proof,    *)
(* 4001 when it is not; either way the connection stays open and            *)
(* identified.                                                              *)
ReIdentifyIsVerified ==
    [][ \A p \in Peers :
          ( /\ TextStep(p)
            /\ identified[p]
            /\ Decodes(last'.frame)
            /\ OpOf(last'.frame) = IDENTIFY )
          => /\ last'.send =
                  IF /\ StoredNonce(p) # None
                     /\ hex_decode(PayloadOf(last'.frame)["token"].v)
                          = Some(HmacSha256(env_secret, StoredNonce(p)[1]))
                  THEN <<ReadyMsg>>
                  ELSE <<ErrorFrame(AUTH)>>
             /\ identified'[p]
             /\ pc'[p] = "open" ]_vars

----------------------------------------------------------------------------
\* the nonce the store holds under the key made from p's own address
OwnNonce(p) == redis_get(redis_str, p \o "_nonce")

(* C25: identification is per connection: a frame taken from one connection *)
(* leaves the identified flag of every other as it was; READY answers only  *)
(* a proof of the nonce stored under the connection's own peer key; and on  *)
(* a connection not yet identified the proof of another connection's,       *)
(* different, nonce is answered 4001 and does not identify it.              *)
IdentificationIsPerConnection ==
    [][ \A p \in Peers :
          /\ TextStep(p) => \A q \in Peers \ {p} : identified'[q] = identified[q]
          /\ (TextStep(p) /\ last'.send = <<ReadyMsg>>) =>
                /\ OwnNonce(p) # None
                /\ hex_decode(PayloadOf(last'.frame)["token"].v)
                     = Some(HmacSha256(env_secret, OwnNonce(p)[1]))
          /\ ( /\ TextStep(p)
               /\ ~identified[p]
               /\ Decodes(last'.frame)
               /\ OpOf(last'.frame) = IDENTIFY
               /\ \E q \in Peers \ {p} :
                     /\ OwnNonce(q) # None
                     /\ OwnNonce(q) # OwnNonce(p)
                     /\ PayloadOf(last'.frame)["token"].v
                          = ProofFor(env_secret, OwnNonce(q)[1]) )
             => /\ last'.send = <<ErrorFrame(AUTH)>>
                /\ ~identified'[p] ]_vars

\* SecondPeer, whose nonce differs from FirstPeer's, presented the proof of
\* FirstPeer's nonce and was refused, while FirstPeer is identified
ForeignProofRefused ==
    /\ last.ev = "text"
    /\ last.peer = SecondPeer
    /\ Decodes(last.frame)
    /\ OpOf(last.frame) = IDENTIFY
    /\ OwnNonce(FirstPeer) # None
    /\ OwnNonce(SecondPeer) # None
    /\ OwnNonce(FirstPeer) # OwnNonce(SecondPeer)
    /\ PayloadOf(last.frame)["token"].v = ProofFor(env_secret, OwnNonce(FirstPeer)[1])
    /\ last.send = <<ErrorFrame(AUTH)>>
    /\ identified[FirstPeer]
    /\ ~identified[SecondPeer]

============================================================================
